---- MODULE Spec2Model ----
(***************************************************************************)
(* A state-machine model of JRPCClient (src/unnamed/part_001), the         *)
(* JSON-RPC client session: connection handling, call(), prepare(),        *)
(* batch() and the inbound data path.                                      *)
(*                                                                         *)
(* One action is one turn of the JavaScript event loop: a macrotask        *)
(* together with the promise reactions (microtasks) it triggers.           *)
(*                                                                         *)
(* JavaScript values are modelled by tags (strings): "none" is undefined   *)
(* or an absent key, "null", "false", "zero" and "empty" are the falsy     *)
(* values null, false, 0 and '', every other tag is a truthy value.        *)
(***************************************************************************)
EXTENDS Integers, Sequences, FiniteSets, TLC

\* ----------------------------------------------------------------- bounds
MaxOps == 3         \* operations the application invokes on the session
MaxRequests == 2    \* requests the application issues (call() and prepare())
MaxEvents == 2      \* notifications and connection events the transport emits
MaxLen == 2         \* elements of an inbound array of responses

\* ----------------------------------------------------------------- values
None == "none"
Null == "null"
JSFalse == "false"
Falsy == {"none", "null", "false", "zero", "empty"}

\* JavaScript truthiness of a value.
Truthy(v) == v \notin Falsy

\* JavaScript's a || b.
Or(a, b) == IF Truthy(a) THEN a ELSE b

\* The engine's timeout error {code: -1000, message: 'Timed out waiting for response'}.
TimeoutError == "-1000:Timed out waiting for response"
\* new Error('Transport not connected')
ErrNotConnected == "Error:Transport not connected"
\* The rejection of transport.send and of transport.connect.
ErrSend == "Error:send failed"
ErrConnect == "Error:connect failed"

\* What the server may put in a response: results, error objects.
ServerResults == {"r1", "zero"}
ServerErrors == {"1234:Generic RPC error"}

\* The decoded responses the transport may emit for one id: a result, an
\* error object, or both keys at once.
RawReplies ==
  {[hasError |-> FALSE, error |-> None, hasResult |-> TRUE, result |-> r] : r \in ServerResults}
  \cup {[hasError |-> TRUE, error |-> e, hasResult |-> FALSE, result |-> None] : e \in ServerErrors}
  \cup {[hasError |-> TRUE, error |-> Null, hasResult |-> TRUE, result |-> "r1"],
         [hasError |-> TRUE, error |-> "1234:Generic RPC error", hasResult |-> TRUE,
          result |-> Null]}

NoReply == [hasError |-> FALSE, error |-> None, hasResult |-> FALSE, result |-> None]

KeyOrder == <<"b", "a", "c", "d">>

Range(s) == {s[i] : i \in DOMAIN s}

\* ----------------------------------------------------------------- futures
Pending == [st |-> "pending", shape |-> "none", error |-> None, result |-> None]
Rejected(e) == [st |-> "rejected", shape |-> "error", error |-> e, result |-> None]
ResolvedRaw(r) == [st |-> "resolved", shape |-> "raw", error |-> None, result |-> r]
ResolvedResponse(resp) ==
  [st |-> "resolved", shape |-> "response", error |-> resp.error, result |-> resp.result]

\* A promise settles once: resolve/reject of a settled promise is ignored.
Settle(f, new) == IF f.st = "pending" THEN new ELSE f

VARIABLES
  cfg,         \* the constructor's options and the transport's needsConnection
  tConnected,  \* transport.isConnected
  remote,      \* the RPC engine: active, outbox, inbox, timers, reg (id -> callback owner)
  msgs,        \* the messages handed to transport.send, in order
  calls,       \* call() invocations
  preps,       \* PreparedCalls (LazyPromise handles) made by prepare()
  batches,     \* batch() invocations
  got,         \* per request id: how the engine completed it, and with which response
  uop,         \* the application's own connect() or disconnect(), while it is awaited
  nops,        \* the number of operations the application has invoked
  exposed,     \* the engine's notification registry: name -> handler, or None
  tl,          \* the listeners on the transport: [ev, who], who is the session or the app
  sl,          \* the events of the session the application listens to
  log,         \* history: the notification() and destroy() invocations and the
               \* deliveries of the transport's events, in order
  nev,         \* the number of notifications and connection events emitted
  dpc,         \* destroy(): "none" (not invoked), "disconnecting" or "done"
  after,       \* the operations invoked after destroy() has resolved, with their outcome
  inbound,     \* the last data the transport emitted: [arr, items]
  handed,      \* what onTransportData handed to remote.receive for it
  tmo,         \* the constructor's timeout option, in milliseconds
  clock        \* the engine's timer of one transmitted call: [st, secs, ms]

tm == <<tmo, clock>>
aux == <<after, inbound, handed, tm>>
life == <<exposed, tl, sl, log, nev, dpc, aux>>
vars == <<cfg, tConnected, remote, msgs, calls, preps, batches, got, uop, nops, life>>

\* ------------------------------------------------------------- RPC engine
\* The engine is the external jrpc dependency; it is modelled from its
\* contract: call registers a pending call and queues its request, transmit
\* flushes every queued request into one message and arms the timers.
NotCompleted == [how |-> "none", res |-> NoReply]

RemoteCall(r, own) ==
  IF ~r.active THEN r
  ELSE [r EXCEPT !.reg = Append(@, own),
                 !.outbox = Append(@, Len(r.reg) + 1),
                 !.inbox = @ \cup {Len(r.reg) + 1}]

RemoteTransmit(r) == [r EXCEPT !.outbox = <<>>, !.timers = @ \cup Range(r.outbox)]

\* deliverResponse: the pending call is forgotten and its callback fires once.
RemoteComplete(r, id) == [r EXCEPT !.inbox = @ \ {id}, !.timers = @ \ {id}]

\* The (err, result) the engine hands to the callback for a response.
CallbackErr(res) == IF res.hasError THEN res.error ELSE JSFalse
CallbackResult(res) == IF res.hasError THEN Null ELSE res.result

\* ------------------------------------------------------------ the session
\* get isConnected
IsConnected == (~cfg.needsConnection) \/ tConnected

\* A connect() that would not look at transport.needsConnection.
ConnectDelegatesUnguarded == ~tConnected

\* connect() delegates to transport.connect() only in this case.
ConnectDelegates == cfg.needsConnection /\ ~tConnected

\* A disconnect() that would not look at transport.isConnected.
DisconnectDelegatesUnguarded == cfg.needsConnection

\* disconnect() delegates to transport.disconnect() only in this case.
DisconnectDelegates == cfg.needsConnection /\ tConnected

\* A session that would never refuse: it connects on demand whatever autoConnect says.
RejectsUnconnectedNever == FALSE

\* call() and batch() on a session that is not connected: reject, or connect first.
RejectsUnconnected == ~cfg.autoConnect

\* {error: (err || null), result: (result || null)}
Response(err, result) == [error |-> Or(err, Null), result |-> Or(result, Null)]

\* A call() callback that would ignore the engine's timeout.
CallCallbackDropsTimeout(roe, err, result) ==
  IF err = TimeoutError THEN Pending
  ELSE IF roe
  THEN IF Truthy(err) THEN Rejected(err) ELSE ResolvedRaw(result)
  ELSE ResolvedResponse(Response(err, result))

\* A call() callback that would normalise the default-mode result as the
\* Response does (result || null).
CallCallbackNormalises(roe, err, result) ==
  IF roe
  THEN IF Truthy(err) THEN Rejected(err) ELSE ResolvedRaw(Or(result, Null))
  ELSE ResolvedResponse(Response(err, result))

\* The callback call() passes to remote.call.
CallCallback(roe, err, result) ==
  IF roe
  THEN IF Truthy(err) THEN Rejected(err) ELSE ResolvedRaw(result)
  ELSE ResolvedResponse(Response(err, result))

\* A prepare() callback that would reject the PreparedCall on a timeout.
PrepareCallbackRejectsTimeout(err, result) ==
  IF err = TimeoutError THEN Rejected(err) ELSE ResolvedResponse(Response(err, result))

\* The callback prepare() passes to remote.call.
PrepareCallback(err, result) == ResolvedResponse(Response(err, result))

\* A send failure that would be reported as a Response instead of a rejection.
SendFailedAsResponse(f) == Settle(f, ResolvedResponse(Response(ErrSend, Null)))

\* transport.send(data).catch(reject): the owner's future after a send failure.
SendFailed(f) == Settle(f, Rejected(ErrSend))

\* A flush whose send failure nobody catches.
BatchSendUncaught(f) == f

\* The same for the future of a batch().
BatchSendFailed(f) ==
  IF f.st = "pending"
  THEN [st |-> "rejected", shape |-> "error", slots |-> <<>>, error |-> ErrSend]
  ELSE f

\* remote.transmit((data, next) => { next(); transport.send(data)... }): the
\* messages handed to transport.send once the queued requests `ids` are flushed.
Transmitted(ms, ids, from) ==
  IF ids = <<>> THEN ms ELSE Append(ms, [ids |-> ids, st |-> "sent", from |-> from])

\* A cleanResponse in which error would win whatever its value.
cleanResponseErrorWins(res) ==
  IF res.hasError /\ res.hasResult
  THEN [res EXCEPT !.hasResult = FALSE, !.result = None]
  ELSE res

\* cleanResponse
cleanResponse(res) ==
  IF res.hasError /\ res.hasResult
  THEN IF Truthy(res.error)
       THEN [res EXCEPT !.hasResult = FALSE, !.result = None]
       ELSE [res EXCEPT !.hasError = FALSE, !.error = None]
  ELSE res

\* The decoded messages a transport may emit, by their error and result
\* keys: each key is absent, null or a value a server can send.
ErrorValues == {Null} \cup ServerErrors
ResultValues == {Null, "r1"}
Messages ==
  {[hasError |-> he, error |-> e, hasResult |-> hr, result |-> r] :
     he \in BOOLEAN, e \in ErrorValues \cup {None},
     hr \in BOOLEAN, r \in ResultValues \cup {None}}
  \ {m \in [hasError : BOOLEAN, error : ErrorValues \cup {None},
             hasResult : BOOLEAN, result : ResultValues \cup {None}] :
        \/ m.hasError # (m.error # None)
        \/ m.hasResult # (m.result # None)}

\* The data of a 'data' event: one message, or an array of them.
NoData == [arr |-> FALSE, items |-> <<>>]
InboundData ==
  {[arr |-> FALSE, items |-> <<m>>] : m \in Messages}
  \cup {[arr |-> TRUE, items |-> its] :
          its \in UNION {[1..n -> Messages] : n \in 0..MaxLen}}

\* onTransportData: every element of an array, or the single object, goes
\* through cleanResponse; the result is what remote.receive gets.
CleanData(data) ==
  [arr |-> data.arr, items |-> [i \in DOMAIN data.items |-> cleanResponse(data.items[i])]]

\* transport.connect(): the transport may report isConnected at once (as the
\* test transports do) or only when the connect completes.
TransportConnect == tConnected' \in {tConnected, TRUE}

\* ------------------------------------------------- events and listeners
\* The events of the transport the session subscribes to in its constructor.
TransportEvents == {"data", "connected", "disconnected", "error"}
\* The events the session re-emits to its own listeners.
SessionEvents == {"connected", "disconnected", "error"}

\* transportHandlers, installed with transport.on(event, handler).
SessionListeners == {[ev |-> e, who |-> "session"] : e \in TransportEvents}
\* Listeners the application itself has put on the transport it shares.
AppListeners == {[ev |-> e, who |-> "app"] : e \in TransportEvents}

SessionListens(e) == [ev |-> e, who |-> "session"] \in tl
AppListens(e) == [ev |-> e, who |-> "app"] \in tl

\* Notification names, handlers and params the application and server use.
NotificationNames == {"n1", "n2"}
Handlers == {"h1", "h2"}
NotificationParams == {"p1", "p2"}

\* ------------------------------------------------------------------- Init
\* The options of the constructor and the kind of transport. autoConnect is
\* read only when the session is not connected, which a transport that needs
\* no connection never is: it keeps its default (true) there.
Configs ==
  {c \in [needsConnection : BOOLEAN, autoConnect : BOOLEAN, batchRequests : BOOLEAN] :
     c.needsConnection \/ c.autoConnect}

\* ------------------------------------------------------ the timeout option
\* constructor({ ..., timeout = 60000 })
DefaultTimeout == 60000

\* check.assert.greaterOrEqual(timeout, 1000, 'invalid "timeout" option')
MinTimeout == 1000

\* The engine counts its timeout in seconds.
MsPerSecond == 1000

TimeoutAccepted(t) == t >= MinTimeout

\* remoteTimeout: Math.floor(timeout / 1000)
RemoteTimeout(t) == t \div MsPerSecond

\* Time is observed in quarters of a second, up to MaxTicks of them.
MaxTicks == 14
TickMs == MsPerSecond \div 4

\* The timeout options the constructor accepts, among the observable times.
TimeoutOptions == {t \in {k * TickMs : k \in 0..MaxTicks} : TimeoutAccepted(t)}

\* The timer of a call not transmitted yet, in an engine constructed for timeout t.
NewClock(t) == [st |-> "idle", secs |-> RemoteTimeout(t), ms |-> 0]

\* The state after construction, but for the timeout option.
InitSession ==
  /\ cfg \in Configs
  /\ tConnected = FALSE
  /\ remote = [active |-> TRUE, outbox |-> <<>>, inbox |-> {}, timers |-> {}, reg |-> <<>>]
  /\ msgs = <<>>
  /\ calls = <<>>
  /\ preps = <<>>
  /\ batches = <<>>
  /\ got = <<>>
  /\ uop = "idle"
  /\ nops = 0
  /\ exposed = [n \in NotificationNames |-> None]
  /\ tl = SessionListeners \cup AppListeners
  /\ sl = SessionEvents
  /\ log = <<>>
  /\ nev = 0
  /\ dpc = "none"
  /\ after = <<>>
  /\ inbound = NoData
  /\ handed = NoData

Init ==
  /\ InitSession
  /\ tmo = DefaultTimeout
  /\ clock = NewClock(tmo)

\* A session constructed with any accepted timeout option.
TimeoutInit ==
  /\ InitSession
  /\ tmo \in TimeoutOptions
  /\ clock = NewClock(tmo)

\* The requests the application has issued: the call()s and the PreparedCalls.
Requests == Len(calls) + Len(preps)

\* ----------------------------------------------------------------- call()
\* makeCall: register the call and transmit what the engine has queued.
MakeCall(c) ==
  LET r1 == RemoteCall(remote, [k |-> "call", i |-> c]) IN
  /\ remote' = RemoteTransmit(r1)
  /\ msgs' = Transmitted(msgs, r1.outbox, [k |-> "call", i |-> c])
  /\ got' = IF remote.active THEN Append(got, NotCompleted) ELSE got

\* The id makeCall's remote.call gives the call (0: the engine registered nothing).
NewId == IF remote.active THEN Len(remote.reg) + 1 ELSE 0

CallRejectUnconnected(roe) ==
  /\ calls' = Append(calls, [roe |-> roe, pc |-> "failed", id |-> 0,
                             fut |-> Rejected(ErrNotConnected)])
  /\ UNCHANGED <<tConnected, remote, msgs, got>>

\* An autoconnect that would make the call without waiting for the connect.
CallAutoConnectNoWait(roe) ==
  /\ calls' = Append(calls, [roe |-> roe, pc |-> "connecting", id |-> NewId,
                             fut |-> Pending])
  /\ TransportConnect
  /\ MakeCall(Len(calls) + 1)

CallAutoConnect(roe) ==
  /\ calls' = Append(calls, [roe |-> roe, pc |-> "connecting", id |-> 0,
                             fut |-> Pending])
  /\ TransportConnect
  /\ UNCHANGED <<remote, msgs, got>>

CallConnected(roe) ==
  /\ calls' = Append(calls, [roe |-> roe, pc |-> "made", id |-> NewId,
                             fut |-> Pending])
  /\ MakeCall(Len(calls) + 1)
  /\ UNCHANGED tConnected

Call ==
  /\ nops < MaxOps
  /\ dpc = "none"
  /\ nops' = nops + 1
  /\ Requests < MaxRequests
  /\ \E roe \in BOOLEAN :
       IF ~IsConnected
       THEN IF RejectsUnconnected THEN CallRejectUnconnected(roe) ELSE CallAutoConnect(roe)
       ELSE CallConnected(roe)
  /\ UNCHANGED <<life, cfg, preps, batches, uop>>

\* this.connect().then(makeCall).catch(reject): the connect call() started completes.
CallConnectDone ==
  \E c \in DOMAIN calls :
    /\ calls[c].pc = "connecting"
    /\ \/ /\ tConnected' = TRUE
          /\ calls' = [calls EXCEPT ![c].pc = "made", ![c].id = NewId]
          /\ MakeCall(c)
       \/ /\ ~tConnected
          /\ calls' = [calls EXCEPT ![c].pc = "failed",
                                    ![c].fut = Settle(@, Rejected(ErrConnect))]
          /\ UNCHANGED <<tConnected, remote, msgs, got>>
    /\ UNCHANGED <<life, cfg, preps, batches, uop, nops>>

\* A prepare() that would run its executor at once.
PrepareEager ==
  /\ nops < MaxOps
  /\ dpc = "none"
  /\ nops' = nops + 1
  /\ Requests < MaxRequests
  /\ LET h == Len(preps) + 1
         r1 == RemoteCall(remote, [k |-> "prep", i |-> h])
     IN /\ remote' = IF cfg.batchRequests THEN r1 ELSE RemoteTransmit(r1)
        /\ msgs' = IF cfg.batchRequests THEN msgs
                   ELSE Transmitted(msgs, r1.outbox, [k |-> "prep", i |-> h])
        /\ preps' = Append(preps, [started |-> TRUE, id |-> Len(r1.reg), fut |-> Pending])
        /\ got' = Append(got, NotCompleted)
  /\ UNCHANGED <<life, cfg, tConnected, calls, batches, uop>>

\* -------------------------------------------------------------- prepare()
\* prepare() returns a LazyPromise: nothing runs until its first then().
Prepare ==
  /\ nops < MaxOps
  /\ dpc = "none"
  /\ nops' = nops + 1
  /\ Requests < MaxRequests
  /\ preps' = Append(preps, [started |-> FALSE, id |-> 0, fut |-> Pending])
  /\ UNCHANGED <<life, cfg, tConnected, remote, msgs, calls, batches, got, uop>>

\* The executor of prepare(): register the call, transmit it now if batching
\* is disabled. S is [remote, msgs, preps, got].
PrepareExecutor(S, h) ==
  LET r1 == RemoteCall(S.remote, [k |-> "prep", i |-> h]) IN
  [remote |-> IF cfg.batchRequests THEN r1 ELSE RemoteTransmit(r1),
   msgs |-> IF cfg.batchRequests THEN S.msgs
            ELSE Transmitted(S.msgs, r1.outbox, [k |-> "prep", i |-> h]),
   preps |-> [S.preps EXCEPT ![h].started = TRUE,
                             ![h].id = IF S.remote.active THEN Len(r1.reg) ELSE 0],
   got |-> IF S.remote.active THEN Append(S.got, NotCompleted) ELSE S.got]

\* A then() that would run the executor every time.
LazyThenAlways(S, h) == PrepareExecutor(S, h)

\* LazyPromise.then: the executor runs on the first then() only.
LazyThen(S, h) == IF S.preps[h].started THEN S ELSE PrepareExecutor(S, h)

\* Promise.all(requests) / pProps(requests) call then() on every element, in order.
RECURSIVE ThenAll(_, _)
ThenAll(S, its) == IF its = <<>> THEN S ELSE ThenAll(LazyThen(S, Head(its)), Tail(its))

\* ---------------------------------------------------------------- batch()
BPending == [st |-> "pending", shape |-> "none", slots |-> <<>>, error |-> None]
BRejected(e) == [st |-> "rejected", shape |-> "error", slots |-> <<>>, error |-> e]
BResolved(shape, slots) == [st |-> "resolved", shape |-> shape, slots |-> slots, error |-> None]

\* The value a settled PreparedCall resolved with.
ResponseOf(f) == [error |-> f.error, result |-> f.result]

\* The values in the reverse of the order of the input.
PromiseAllReversed(its, ps) == [i \in 1..Len(its) |-> ResponseOf(ps[its[Len(its) + 1 - i]].fut)]

\* Promise.all: the values, by position.
PromiseAllValues(its, ps) == [i \in 1..Len(its) |-> ResponseOf(ps[its[i]].fut)]

\* pProps: the values, by key.
PPropsValues(ks, its, ps) ==
  [k \in Range(ks) |-> ResponseOf(ps[its[CHOOSE i \in 1..Len(ks) : ks[i] = k]].fut)]

\* Promise.all(requests).then(resolve).catch(reject), or the same with pProps:
\* the future of a batch that has made its calls, given the PreparedCalls.
Aggregated(b, ps) ==
  LET its == b.items
      bad == {i \in 1..Len(its) : ps[its[i]].fut.st = "rejected"}
  IN IF b.fut.st # "pending" THEN b.fut
     ELSE IF bad # {}
       THEN BRejected(ps[its[CHOOSE i \in bad : \A j \in bad : i <= j]].fut.error)
     ELSE IF \A i \in 1..Len(its) : ps[its[i]].fut.st = "resolved"
       THEN IF b.arr THEN BResolved("array", PromiseAllValues(its, ps))
            ELSE BResolved("object", PPropsValues(b.keys, its, ps))
     ELSE b.fut

\* Every batch that has made its calls follows its PreparedCalls.
Resettle(bs, ps) ==
  [b \in DOMAIN bs |->
     IF bs[b].pc \in {"flush", "made"} THEN [bs[b] EXCEPT !.fut = Aggregated(bs[b], ps)]
     ELSE bs[b]]

\* The inputs of batch(): an array of PreparedCalls, or an object of them.
\* The PreparedCalls are distinct, or one PreparedCall is given twice; an
\* object's keys are the first of KeyOrder.
BatchItems ==
  UNION {{its \in [1..n -> DOMAIN preps] : \A i, j \in 1..n : its[i] = its[j] => i = j} :
           n \in 0..Len(preps)}
  \cup {<<h, h>> : h \in DOMAIN preps}
BatchKeys(n) == {SubSeq(KeyOrder, 1, n)}

NewBatch(arr, ks, its, pc, fut) ==
  [arr |-> arr, keys |-> ks, items |-> its, pc |-> pc, fut |-> fut]

\* A makeCalls that would never schedule the flush.
MakeCallsNoFlush(b, bs) ==
  LET S == ThenAll([remote |-> remote, msgs |-> msgs, preps |-> preps, got |-> got],
                   bs[b].items)
      made == [bs EXCEPT ![b].pc = "made"]
  IN /\ remote' = S.remote
     /\ msgs' = S.msgs
     /\ preps' = S.preps
     /\ got' = S.got
     /\ batches' = Resettle(made, S.preps)

\* makeCalls: aggregate the PreparedCalls and, with batching, schedule the flush.
MakeCalls(b, bs) ==
  LET S == ThenAll([remote |-> remote, msgs |-> msgs, preps |-> preps, got |-> got],
                   bs[b].items)
      made == [bs EXCEPT ![b].pc = IF cfg.batchRequests THEN "flush" ELSE "made"]
  IN /\ remote' = S.remote
     /\ msgs' = S.msgs
     /\ preps' = S.preps
     /\ got' = S.got
     /\ batches' = Resettle(made, S.preps)

\* A batch() whose empty input would pass the connectivity check first.
BatchEmptyChecked(arr) ==
  /\ batches' = Append(batches, NewBatch(arr, <<>>, <<>>,
                         IF IsConnected THEN "empty" ELSE "failed",
                         IF IsConnected
                         THEN BResolved(IF arr THEN "array" ELSE "object", <<>>)
                         ELSE BRejected(ErrNotConnected)))
  /\ UNCHANGED <<tConnected, remote, msgs, preps, got>>

\* batch([]) and batch({}): resolved at once with an empty aggregate.
BatchEmpty(arr) ==
  /\ batches' = Append(batches, NewBatch(arr, <<>>, <<>>, "empty",
                         BResolved(IF arr THEN "array" ELSE "object", <<>>)))
  /\ UNCHANGED <<tConnected, remote, msgs, preps, got>>

BatchRejectUnconnected(arr, ks, its) ==
  /\ batches' = Append(batches, NewBatch(arr, ks, its, "failed", BRejected(ErrNotConnected)))
  /\ UNCHANGED <<tConnected, remote, msgs, preps, got>>

\* An autoconnect that would share a connect already in flight instead of
\* invoking transport.connect again.
BatchAutoConnectShared(arr, ks, its) ==
  /\ batches' = Append(batches, NewBatch(arr, ks, its,
                         IF \/ uop = "connecting"
                            \/ \E c \in DOMAIN calls : calls[c].pc = "connecting"
                            \/ \E b \in DOMAIN batches : batches[b].pc = "connecting"
                         THEN "joined" ELSE "connecting", BPending))
  /\ IF batches'[Len(batches')].pc = "connecting" THEN TransportConnect
     ELSE UNCHANGED tConnected
  /\ UNCHANGED <<remote, msgs, preps, got>>

BatchAutoConnect(arr, ks, its) ==
  /\ batches' = Append(batches, NewBatch(arr, ks, its, "connecting", BPending))
  /\ TransportConnect
  /\ UNCHANGED <<remote, msgs, preps, got>>

BatchConnected(arr, ks, its) ==
  /\ MakeCalls(Len(batches) + 1, Append(batches, NewBatch(arr, ks, its, "new", BPending)))
  /\ UNCHANGED tConnected

Batch ==
  /\ nops < MaxOps
  /\ dpc = "none"
  /\ nops' = nops + 1
  /\ \E arr \in BOOLEAN, its \in BatchItems :
       \E ks \in IF arr THEN {<<>>} ELSE BatchKeys(Len(its)) :
         IF its = <<>> THEN BatchEmpty(arr)
         ELSE IF ~IsConnected
         THEN IF RejectsUnconnected THEN BatchRejectUnconnected(arr, ks, its)
              ELSE BatchAutoConnect(arr, ks, its)
         ELSE BatchConnected(arr, ks, its)
  /\ UNCHANGED <<life, cfg, calls, uop>>

\* A batch() that would make its calls although its connect failed.
BatchConnectDoneMakesCalls ==
  \E b \in DOMAIN batches :
    /\ batches[b].pc = "connecting"
    /\ \/ /\ tConnected' = TRUE
          /\ MakeCalls(b, batches)
       \/ /\ ~tConnected
          /\ MakeCalls(b, [batches EXCEPT ![b].fut = BRejected(ErrConnect)])
          /\ UNCHANGED tConnected
    /\ UNCHANGED <<life, cfg, calls, uop, nops>>

\* this.connect().then(makeCalls).catch(reject): the connect batch() started completes.
BatchConnectDone ==
  \E b \in DOMAIN batches :
    /\ batches[b].pc = "connecting"
    /\ \/ /\ tConnected' = TRUE
          /\ MakeCalls(b, batches)
       \/ /\ ~tConnected
          /\ batches' = [batches EXCEPT ![b].pc = "failed", ![b].fut = BRejected(ErrConnect)]
          /\ UNCHANGED <<tConnected, remote, msgs, preps, got>>
    /\ UNCHANGED <<life, cfg, calls, uop, nops>>

\* setImmediate(remote.transmit.bind(remote, ...)): the flush of a batch.
BatchFlush ==
  \E b \in DOMAIN batches :
    /\ batches[b].pc = "flush"
    /\ batches' = [batches EXCEPT ![b].pc = "made"]
    /\ msgs' = Transmitted(msgs, remote.outbox, [k |-> "batch", i |-> b])
    /\ remote' = RemoteTransmit(remote)
    /\ UNCHANGED <<life, cfg, tConnected, calls, preps, got, uop, nops>>

\* ------------------------------------------------------ transport.send ends
\* transport.send(data).catch(reject): reject is the one of the call(), of the
\* batch() or of the PreparedCall whose transmit handed the message over.
SendFail ==
  \E m \in DOMAIN msgs :
    LET from == msgs[m].from
        ps == IF from.k = "prep" THEN [preps EXCEPT ![from.i].fut = SendFailed(@)] ELSE preps
        bs == IF from.k = "batch"
              THEN [batches EXCEPT ![from.i].fut = BatchSendFailed(@)]
              ELSE batches
    IN /\ msgs[m].st = "sent"
       /\ msgs' = [msgs EXCEPT ![m].st = "failed"]
       /\ calls' = IF from.k = "call" THEN [calls EXCEPT ![from.i].fut = SendFailed(@)]
                   ELSE calls
       /\ preps' = ps
       /\ batches' = Resettle(bs, ps)
       /\ UNCHANGED <<life, cfg, tConnected, remote, got, uop, nops>>

\* ---------------------------------------------------------- inbound data
\* The engine completes pending call `id` with (err, result): its callback
\* settles the call() or the PreparedCall that registered it.
Complete(id, how, res, err, result) ==
  LET own == remote.reg[id]
      ps == IF own.k = "prep"
            THEN [preps EXCEPT ![own.i].fut = Settle(@, PrepareCallback(err, result))]
            ELSE preps
  IN /\ remote' = RemoteComplete(remote, id)
     /\ got' = [got EXCEPT ![id] = [how |-> how, res |-> res]]
     /\ calls' = IF own.k = "call"
                 THEN [calls EXCEPT ![own.i].fut =
                         Settle(@, CallCallback(calls[own.i].roe, err, result))]
                 ELSE calls
     /\ preps' = ps
     /\ batches' = Resettle(batches, ps)

\* The ids the server has been sent and may answer.
Sent == UNION {Range(msgs[m].ids) : m \in {n \in DOMAIN msgs : msgs[n].st = "sent"}}

\* onTransportData: a response for a pending call arrives.
Reply ==
  \E id \in Sent \cap remote.inbox, raw \in RawReplies :
    LET res == cleanResponse(raw) IN
    /\ SessionListens("data")
    /\ Complete(id, "reply", res, CallbackErr(res), CallbackResult(res))
    /\ UNCHANGED <<life, cfg, tConnected, msgs, uop, nops>>

\* The engine's timer of transmitted call `id` expires.
TimerFires(id) ==
  /\ id \in remote.timers
  /\ Complete(id, "timeout", NoReply, TimeoutError, Null)
  /\ UNCHANGED <<life, cfg, tConnected, msgs, uop, nops>>

Timeout == \E id \in 1..MaxRequests : TimerFires(id)

\* ----------------------------------------------- connect() / disconnect()
\* The application awaits each connect() and disconnect() before the next one.
Connect ==
  /\ nops < MaxOps
  /\ dpc = "none"
  /\ nops' = nops + 1
  /\ uop = "idle"
  /\ IF ConnectDelegates
     THEN uop' = "connecting" /\ TransportConnect
     ELSE UNCHANGED <<uop, tConnected>>
  /\ UNCHANGED <<life, cfg, remote, msgs, calls, preps, batches, got>>

ConnectDone ==
  /\ uop = "connecting"
  /\ uop' = "idle"
  /\ \/ tConnected' = TRUE
     \/ ~tConnected /\ UNCHANGED tConnected
  /\ UNCHANGED <<life, cfg, remote, msgs, calls, preps, batches, got, nops>>

\* transport.disconnect(): isConnected is false from the invocation on.
Disconnect ==
  /\ nops < MaxOps
  /\ dpc = "none"
  /\ nops' = nops + 1
  /\ uop = "idle"
  /\ IF DisconnectDelegates
     THEN uop' = "disconnecting" /\ tConnected' = FALSE
     ELSE UNCHANGED <<uop, tConnected>>
  /\ UNCHANGED <<life, cfg, remote, msgs, calls, preps, batches, got>>

DisconnectDone ==
  /\ uop = "disconnecting"
  /\ uop' = "idle"
  /\ UNCHANGED <<life, cfg, tConnected, remote, msgs, calls, preps, batches, got, nops>>

\* --------------------------------------------------------- notification()
\* An entry of the history: a notification(name, handler) invocation (to is
\* "registry"), the destroy() invocation, or an event of the transport handed
\* to the engine, to a notification handler, to a listener of the session or
\* to a listener the application has on the transport.
Delivery(to, e, h, args) == [to |-> to, ev |-> e, h |-> h, args |-> args]

\* The arguments the wrapper gives the handler: handler.call(null, params).
HandlerArgsWithNext(p) == <<p, "next">>
HandlerArgs(p) == <<p>>

\* remote.expose(name, wrapper): the wrapper replaces what the name had.
Expose(ex, n, h) == [ex EXCEPT ![n] = h]

\* An unregistration that would leave the registry as it is.
UnexposeNothing(ex, n) == ex
\* delete remote.exposed[name], when the name has a handler.
Unexpose(ex, n) == IF ex[n] # None THEN [ex EXCEPT ![n] = None] ELSE ex

\* notification(name, handler): a function is registered, anything else
\* (Null here) unregisters.
Notification ==
  /\ nops < MaxOps
  /\ dpc = "none"
  /\ nops' = nops + 1
  /\ \E n \in NotificationNames, h \in Handlers \cup {Null} :
       /\ exposed' = IF h \in Handlers THEN Expose(exposed, n, h) ELSE Unexpose(exposed, n)
       /\ log' = Append(log, Delivery("registry", n, h, <<>>))
  /\ UNCHANGED <<cfg, tConnected, remote, msgs, calls, preps, batches, got, uop,
                 tl, sl, nev, dpc, aux>>

\* ------------------------------------------------------- transport events
\* The transport emits 'data' with the notification n(p). The session's
\* listener, installed first, hands it to the engine (remote.receive), which
\* invokes the handler exposed under n; the application's own listener on
\* the transport sees the event too.
Notify ==
  /\ nev < MaxEvents
  /\ nev' = nev + 1
  /\ \E n \in NotificationNames, p \in NotificationParams :
       log' = log
              \o (IF SessionListens("data")
                  THEN <<Delivery("engine", "data", None, <<n, p>>)>> ELSE <<>>)
              \o (IF SessionListens("data") /\ exposed[n] # None
                  THEN <<Delivery("handler", n, exposed[n], HandlerArgs(p))>> ELSE <<>>)
              \o (IF AppListens("data")
                  THEN <<Delivery("transport", "data", None, <<n, p>>)>> ELSE <<>>)
  /\ UNCHANGED <<cfg, tConnected, remote, msgs, calls, preps, batches, got, uop, nops,
                 exposed, tl, sl, dpc, aux>>

\* The transport emits 'connected', 'disconnected' or 'error': the session's
\* listener re-emits it to the listeners of the session.
TransportEvent ==
  /\ nev < MaxEvents
  /\ nev' = nev + 1
  /\ \E e \in SessionEvents :
       log' = log
              \o (IF SessionListens(e) /\ e \in sl
                  THEN <<Delivery("session", e, None, <<>>)>> ELSE <<>>)
              \o (IF AppListens(e)
                  THEN <<Delivery("transport", e, None, <<>>)>> ELSE <<>>)
  /\ UNCHANGED <<cfg, tConnected, remote, msgs, calls, preps, batches, got, uop, nops,
                 exposed, tl, sl, dpc, aux>>

\* ---------------------------------------------------------------- destroy()
\* The error the engine's shutdown hands the callbacks of the pending calls.
ShutdownError == "Error:shutdown"
Shutdown == [how |-> "shutdown", res |-> NoReply]

\* remote.shutdown(): the engine is inactive, its pending calls are failed
\* and its timers stopped.
RemoteShutdown(r) ==
  [r EXCEPT !.active = FALSE, !.outbox = <<>>, !.inbox = {}, !.timers = {}]

\* A destroy() that would leave the session's listeners on the transport.
RemoveNoListener(ls) == ls
\* transport.removeListener(event, transportHandlers[event]), for each event.
RemoveSessionListeners(ls) == ls \ SessionListeners

\* destroy(), up to its await of disconnect(). The application has awaited
\* its own connect() or disconnect() before.
Destroy ==
  /\ nops < MaxOps
  /\ dpc = "none"
  /\ uop = "idle"
  /\ nops' = nops + 1
  /\ sl' = {}
  /\ tl' = RemoveSessionListeners(tl)
  /\ LET ps == [h \in DOMAIN preps |->
                  IF preps[h].started /\ preps[h].id \in remote.inbox
                  THEN [preps[h] EXCEPT !.fut = Settle(@, PrepareCallback(ShutdownError, Null))]
                  ELSE preps[h]]
     IN /\ remote' = RemoteShutdown(remote)
        /\ got' = [id \in DOMAIN got |-> IF id \in remote.inbox THEN Shutdown ELSE got[id]]
        /\ calls' = [c \in DOMAIN calls |->
                       IF calls[c].pc = "made" /\ calls[c].id \in remote.inbox
                       THEN [calls[c] EXCEPT !.fut =
                               Settle(@, CallCallback(calls[c].roe, ShutdownError, Null))]
                       ELSE calls[c]]
        /\ preps' = ps
        /\ batches' = Resettle(batches, ps)
  /\ IF DisconnectDelegates
     THEN dpc' = "disconnecting" /\ tConnected' = FALSE
     ELSE dpc' = "done" /\ UNCHANGED tConnected
  /\ log' = Append(log, Delivery("destroy", "destroy", None, <<>>))
  /\ UNCHANGED <<cfg, msgs, uop, exposed, nev, aux>>

\* The transport.disconnect() destroy() awaits completes; destroy() resolves.
DestroyDone ==
  /\ dpc = "disconnecting"
  /\ dpc' = "done"
  /\ UNCHANGED <<cfg, tConnected, remote, msgs, calls, preps, batches, got, uop, nops,
                 exposed, tl, sl, log, nev, aux>>

\* ------------------------------------------------- use after destroy()
\* destroy() ends with _data.delete(this): from then on _data.get(this) is
\* undefined and destructuring it throws this TypeError.
ErrDestroyed == "TypeError:Cannot destructure property of undefined"

\* The operations of the session; batch() with an empty and with a non-empty
\* input are told apart.
Operations ==
  {"call", "prepare", "batch-empty", "batch", "notification",
   "connect", "disconnect", "destroy"}

Outcome(how, e) == [how |-> how, error |-> e]

\* What an operation does once the session's data is deleted. call(),
\* a non-empty batch(), connect(), disconnect() and destroy() destructure
\* _data.get(this) inside a promise executor or an async function: the
\* returned promise is rejected. notification() destructures it
\* synchronously and throws. prepare() returns a LazyPromise whose executor
\* has not run. An empty batch() resolves before it reads the data.
OutcomeAfterDestroy(op) ==
  IF op = "notification" THEN Outcome("thrown", ErrDestroyed)
  ELSE IF op = "prepare" THEN Outcome("returned", None)
  ELSE IF op = "batch-empty" THEN Outcome("resolved", None)
  ELSE Outcome("rejected", ErrDestroyed)

\* An operation invoked after destroy() has resolved. None of them gets as
\* far as the transport or the engine.
UseAfterDestroy ==
  /\ nops < MaxOps
  /\ dpc = "done"
  /\ nops' = nops + 1
  /\ \E op \in Operations :
       after' = Append(after, [op |-> op, out |-> OutcomeAfterDestroy(op)])
  /\ UNCHANGED <<cfg, tConnected, remote, msgs, calls, preps, batches, got, uop,
                 exposed, tl, sl, log, nev, dpc, inbound, handed, tm>>

\* ------------------------------------------------------- onTransportData
\* The transport emits 'data' with messages that answer no pending call:
\* onTransportData cleans them and hands them to the engine, which has
\* nothing to complete.
Receive ==
  /\ SessionListens("data")
  /\ \E data \in InboundData :
       /\ inbound' = data
       /\ handed' = CleanData(data)
  /\ UNCHANGED <<cfg, tConnected, remote, msgs, calls, preps, batches, got, uop, nops,
                 exposed, tl, sl, log, nev, dpc, after, tm>>

\* ------------------------------------------------------- the call's timer
\* A call is transmitted: the engine starts its timer.
ClockArm ==
  /\ clock.st = "idle"
  /\ clock' = [clock EXCEPT !.st = "armed"]
  /\ UNCHANGED <<cfg, tConnected, remote, msgs, calls, preps, batches, got, uop, nops,
                 exposed, tl, sl, log, nev, dpc, after, inbound, handed, tmo>>

\* A quarter of a second passes while the call is unanswered.
ClockTick ==
  /\ clock.st = "armed"
  /\ clock.ms < MaxTicks * TickMs
  /\ clock' = [clock EXCEPT !.ms = @ + TickMs]
  /\ UNCHANGED <<cfg, tConnected, remote, msgs, calls, preps, batches, got, uop, nops,
                 exposed, tl, sl, log, nev, dpc, after, inbound, handed, tmo>>

\* The engine's timer expires, no earlier than its timeout in seconds after the
\* transmission: the call is settled with TimeoutError.
ClockExpires ==
  /\ clock.st = "armed"
  /\ clock.ms >= clock.secs * MsPerSecond
  /\ clock' = [clock EXCEPT !.st = "timeout"]
  /\ UNCHANGED <<cfg, tConnected, remote, msgs, calls, preps, batches, got, uop, nops,
                 exposed, tl, sl, log, nev, dpc, after, inbound, handed, tmo>>

\* The response arrives first: the timer is cancelled.
ClockAnswered ==
  /\ clock.st = "armed"
  /\ clock' = [clock EXCEPT !.st = "reply"]
  /\ UNCHANGED <<cfg, tConnected, remote, msgs, calls, preps, batches, got, uop, nops,
                 exposed, tl, sl, log, nev, dpc, after, inbound, handed, tmo>>

\* ------------------------------------------------------------------- Next
Next ==
  \/ Call
  \/ CallConnectDone
  \/ Prepare
  \/ Batch
  \/ BatchConnectDone
  \/ BatchFlush
  \/ SendFail
  \/ Reply
  \/ Timeout
  \/ Connect
  \/ ConnectDone
  \/ Disconnect
  \/ DisconnectDone

Spec == Init /\ [][Next]_vars

\* An armed timer expires unless the call completes first (setTimeout).
LiveSpec == Spec /\ \A id \in 1..MaxRequests : WF_vars(TimerFires(id))

\* The session with destroy(): every operation of Next, and destroy().
DestroyNext ==
  \/ Next
  \/ Destroy
  \/ DestroyDone

DestroySpec == Init /\ [][DestroyNext]_vars

\* One call and its timer, for every accepted timeout option.
TimeoutNext ==
  \/ ClockArm
  \/ ClockTick
  \/ ClockExpires
  \/ ClockAnswered

TimeoutSpec == TimeoutInit /\ [][TimeoutNext]_vars

\* The session as the receiver of the transport's data.
ReceiveNext == Receive

ReceiveSpec == Init /\ [][ReceiveNext]_vars

\* The session used after destroy(): DestroySpec, and the operations invoked
\* once destroy() has resolved.
ReuseNext ==
  \/ DestroyNext
  \/ UseAfterDestroy

ReuseSpec == Init /\ [][ReuseNext]_vars

\* What the session has scheduled does happen: a transport.connect() or
\* transport.disconnect() in flight completes, a scheduled flush runs and an
\* armed timer expires. Replies and send failures are up to the server and
\* the transport.
DestroyLiveSpec ==
  /\ DestroySpec
  /\ WF_vars(CallConnectDone)
  /\ WF_vars(BatchConnectDone)
  /\ WF_vars(BatchFlush)
  /\ WF_vars(ConnectDone)
  /\ WF_vars(DisconnectDone)
  /\ WF_vars(DestroyDone)
  /\ \A id \in 1..MaxRequests : WF_vars(TimerFires(id))

\* The session as a listener of its transport: the notification registry,
\* the transport's events, connect() and destroy().
EventNext ==
  \/ Notification
  \/ Notify
  \/ TransportEvent
  \/ Connect
  \/ ConnectDone
  \/ Destroy
  \/ DestroyDone

EventSpec == Init /\ [][EventNext]_vars

\* ============================================================= properties
\* ------------------------------------------------------------------- C1
\* C1: a batch() that resolves has the shape of its input: for an array, slot
\* i holds the Response of the i-th PreparedCall; for an object, the keys are
\* those of the input and each key holds the Response of its own PreparedCall.
C1_BatchShape ==
  \A b \in DOMAIN batches :
    LET B == batches[b] IN
    (B.fut.st = "resolved" /\ B.items # <<>>) =>
      /\ B.fut.shape = IF B.arr THEN "array" ELSE "object"
      /\ DOMAIN B.fut.slots = IF B.arr THEN 1..Len(B.items) ELSE Range(B.keys)
      /\ \A i \in 1..Len(B.items) :
           /\ preps[B.items[i]].fut.st = "resolved"
           /\ B.fut.slots[IF B.arr THEN i ELSE B.keys[i]] = ResponseOf(preps[B.items[i]].fut)

\* An array batch of two PreparedCalls, given in the reverse of the order they
\* were prepared in, has resolved with two different Responses.
C1_Witness ==
  \E b \in DOMAIN batches :
    /\ batches[b].arr
    /\ batches[b].items = <<2, 1>>
    /\ batches[b].fut.st = "resolved"
    /\ batches[b].fut.slots[1] # batches[b].fut.slots[2]

\* ------------------------------------------------------------------- C2
\* C2 as stated: once the send of a batch's flush has failed, the batch()
\* future is rejected with the transport failure, whatever had happened before.
C2_AsStated ==
  \A m \in DOMAIN msgs :
    (msgs[m].st = "failed" /\ msgs[m].from.k = "batch") =>
      batches[msgs[m].from.i].fut = BRejected(ErrSend)

\* C2, amended: a send failure of the flush that arrives while the batch()
\* future is pending rejects it with the transport failure, whatever responses
\* or timeouts of its calls have been delivered so far, and a batch whose flush
\* has failed never resolves afterwards; a batch() future that had already
\* settled (every call had completed before the failure) is left as it is.
C2_SendFailureRejects ==
  [][ /\ \A m \in DOMAIN msgs :
           (msgs[m].st = "sent" /\ msgs'[m].st = "failed" /\ msgs[m].from.k = "batch") =>
              LET b == msgs[m].from.i IN
              batches'[b].fut = IF batches[b].fut.st = "pending" THEN BRejected(ErrSend)
                                ELSE batches[b].fut
      /\ \A m \in DOMAIN msgs :
           (msgs[m].st = "failed" /\ msgs[m].from.k = "batch") =>
              LET b == msgs[m].from.i IN
              batches[b].fut.st # "resolved" => batches'[b].fut.st # "resolved" ]_vars

\* A batch() was rejected by the send failure after one of its calls had
\* already received its response.
C2_Witness ==
  \E b \in DOMAIN batches :
    /\ batches[b].fut = BRejected(ErrSend)
    /\ \E i \in 1..Len(batches[b].items) :
         LET h == batches[b].items[i] IN
         /\ preps[h].fut.st = "resolved"
         /\ got[preps[h].id].how = "reply"

C4_ExactlyOneNonNull ==
  LET ExactlyOne(r) == (r.error # Null) # (r.result # Null) IN
  /\ \A c \in DOMAIN calls :
       ~calls[c].roe =>
         /\ calls[c].fut.st = "resolved" => ExactlyOne(ResponseOf(calls[c].fut))
         /\ calls[c].fut.st = "rejected" =>
              calls[c].fut.error \in {ErrNotConnected, ErrConnect, ErrSend}
  /\ \A h \in DOMAIN preps :
       preps[h].fut.st = "resolved" => ExactlyOne(ResponseOf(preps[h].fut))

\* ------------------------------------------------------------------- C5
\* C5: a call() in the default mode resolves with the raw result of the
\* response carrying its own id, or rejects with exactly the error object of
\* that response; it is never settled by the response of another call.
C5_OwnResponse ==
  \A c \in DOMAIN calls :
    LET C == calls[c] IN
    /\ C.id # 0 => remote.reg[C.id] = [k |-> "call", i |-> c]
    /\ \A d \in DOMAIN calls : (d # c /\ C.id # 0) => calls[d].id # C.id
    /\ C.roe =>
         /\ C.fut.st = "resolved" =>
              /\ C.fut.shape = "raw"
              /\ C.id # 0
              /\ got[C.id].how = "reply"
              /\ ~got[C.id].res.hasError
              /\ C.fut.result = got[C.id].res.result
         /\ (C.fut.st = "rejected" /\ C.fut.error \in ServerErrors) =>
              /\ C.id # 0
              /\ got[C.id].how = "reply"
              /\ got[C.id].res.hasError
              /\ C.fut.error = got[C.id].res.error
         /\ (C.id # 0 /\ got[C.id].how = "reply") => C.fut.st # "pending"

\* Two default-mode calls were answered differently: the first was rejected
\* with the server's error, the second resolved with the raw result 0.
C5_Witness ==
  /\ Len(calls) = 2
  /\ calls[1].roe /\ calls[2].roe
  /\ calls[1].fut = Rejected("1234:Generic RPC error")
  /\ calls[2].fut = ResolvedRaw("zero")

\* ------------------------------------------------------------------- C6
\* C6 as stated: once the send of a call()'s message has failed, the call()
\* future is rejected with the transport failure, for both rejectOnError.
C6_AsStated ==
  \A m \in DOMAIN msgs :
    (msgs[m].st = "failed" /\ msgs[m].from.k = "call") =>
      calls[msgs[m].from.i].fut = Rejected(ErrSend)

\* C6, amended: a send failure that arrives while the call() future is pending
\* rejects it with the transport failure, for rejectOnError true and false
\* alike; the failure is never turned into a resolved Response; a call() that
\* its response or its timeout had already settled is left as it is.
C6_SendFailureRejects ==
  [][ /\ \A m \in DOMAIN msgs :
           (msgs[m].st = "sent" /\ msgs'[m].st = "failed" /\ msgs[m].from.k = "call") =>
              LET c == msgs[m].from.i IN
              calls'[c].fut = IF calls[c].fut.st = "pending" THEN Rejected(ErrSend)
                              ELSE calls[c].fut
      /\ \A c \in DOMAIN calls' :
           calls'[c].fut.st = "resolved" =>
             (calls'[c].fut.error # ErrSend /\ calls'[c].fut.result # ErrSend) ]_vars

\* A call() made with rejectOnError false was rejected by the send failure,
\* and so was one made with rejectOnError true.
C6_Witness ==
  /\ \E c \in DOMAIN calls : ~calls[c].roe /\ calls[c].fut = Rejected(ErrSend)
  /\ \E c \in DOMAIN calls : calls[c].roe /\ calls[c].fut = Rejected(ErrSend)

\* ------------------------------------------------------------------- C7
\* C7: on a transport that needs a connection and is not connected, with
\* autoConnect false, call() and batch() of at least one call reject with
\* 'Transport not connected' and do nothing else: transport.connect and
\* transport.send are not invoked, no call is registered with the engine, and
\* isConnected is still false.
C7_RejectsUnconnected ==
  [][ (~IsConnected /\ ~cfg.autoConnect) =>
        /\ Len(calls') > Len(calls) =>
             /\ calls'[Len(calls')].fut = Rejected(ErrNotConnected)
             /\ calls'[Len(calls')].id = 0
             /\ UNCHANGED <<tConnected, remote, msgs, preps, got, uop, batches>>
             /\ ~IsConnected'
        /\ (Len(batches') > Len(batches) /\ batches'[Len(batches')].items # <<>>) =>
             /\ batches'[Len(batches')].fut = BRejected(ErrNotConnected)
             /\ UNCHANGED <<tConnected, remote, msgs, preps, got, uop, calls>>
             /\ ~IsConnected' ]_vars

\* Both a call() and a batch() of one PreparedCall were refused, and the
\* PreparedCall is still unregistered.
C7_Witness ==
  /\ \E c \in DOMAIN calls : calls[c].fut = Rejected(ErrNotConnected)
  /\ \E b \in DOMAIN batches :
       /\ batches[b].fut = BRejected(ErrNotConnected)
       /\ \A i \in 1..Len(batches[b].items) : ~preps[batches[b].items[i]].started

\* ------------------------------------------------------------------- C8
\* C8: with autoConnect, a call() or batch() on a session that is not
\* connected connects first: while its connect is under way nothing of it is
\* registered or transmitted and its future is pending; the step in which the
\* connect completes is the one that registers and transmits it, and
\* isConnected is true then; isConnected stays true from then on unless the
\* application itself calls disconnect(), so it is true when the call resolves.
C8_ConnectFirst ==
  /\ [](/\ \A c \in DOMAIN calls :
             /\ calls[c].pc = "connecting" =>
                  /\ calls[c].id = 0 /\ calls[c].fut = Pending
                  /\ \A m \in DOMAIN msgs : msgs[m].from # [k |-> "call", i |-> c]
                  /\ \A id \in DOMAIN remote.reg : remote.reg[id] # [k |-> "call", i |-> c]
             /\ calls[c].fut.st = "resolved" => calls[c].pc = "made"
        /\ \A b \in DOMAIN batches :
             /\ batches[b].pc = "connecting" =>
                  /\ batches[b].fut = BPending
                  /\ \A m \in DOMAIN msgs : msgs[m].from # [k |-> "batch", i |-> b]
             /\ batches[b].fut.st = "resolved" => batches[b].pc \in {"empty", "flush", "made"})
  /\ [][ /\ \A c \in DOMAIN calls :
              (calls[c].pc = "connecting" /\ calls'[c].pc = "made") =>
                 /\ IsConnected'
                 /\ calls'[c].id = Len(remote.reg) + 1
                 /\ remote'.reg = Append(remote.reg, [k |-> "call", i |-> c])
                 /\ Len(msgs') = Len(msgs) + 1
                 /\ msgs'[Len(msgs')].from = [k |-> "call", i |-> c]
                 /\ calls'[c].id \in Range(msgs'[Len(msgs')].ids)
         /\ \A b \in DOMAIN batches :
              (batches[b].pc = "connecting" /\ batches'[b].pc \in {"flush", "made"}) =>
                 IsConnected'
         /\ (IsConnected /\ ~IsConnected') => (uop' = "disconnecting" /\ nops' = nops + 1) ]_vars

\* The only operation the application has invoked is a call(), on a session
\* that needs a connection: it had to connect first, it has resolved, and the
\* session is connected.
C8_Witness ==
  /\ cfg.needsConnection /\ cfg.autoConnect
  /\ nops = 1
  /\ Len(calls) = 1
  /\ calls[1].fut.st = "resolved"
  /\ IsConnected

\* ------------------------------------------------------------------- C9
\* C9: a transmitted call that receives no response eventually settles, and a
\* call its timer completed is settled with the sentinel {code: -1000,
\* message: 'Timed out waiting for response'}: a rejection when rejectOnError
\* is true, the error of a resolved Response otherwise and for a PreparedCall
\* (unless the failed send of its message had rejected it before).
C9_TimesOut ==
  /\ [](\A id \in DOMAIN got :
          got[id].how = "timeout" =>
            LET own == remote.reg[id]
                fut == IF own.k = "call" THEN calls[own.i].fut ELSE preps[own.i].fut
                asError == own.k = "call" /\ calls[own.i].roe
            IN \/ fut = IF asError THEN Rejected(TimeoutError)
                        ELSE ResolvedResponse([error |-> TimeoutError, result |-> Null])
               \/ /\ fut = Rejected(ErrSend)
                  /\ \E m \in DOMAIN msgs : msgs[m].st = "failed" /\ id \in Range(msgs[m].ids))
  /\ \A id \in 1..MaxRequests :
       (id \in remote.timers)
         ~> (/\ id \in DOMAIN got
             /\ got[id].how # "none"
             /\ LET own == remote.reg[id] IN
                IF own.k = "call" THEN calls[own.i].fut.st # "pending"
                ELSE preps[own.i].fut.st # "pending")

\* One call was rejected with the sentinel and another resolved with it as
\* the error of its Response.
C9_Witness ==
  /\ \E c \in DOMAIN calls : calls[c].roe /\ calls[c].fut = Rejected(TimeoutError)
  /\ \E c \in DOMAIN calls :
       /\ ~calls[c].roe
       /\ calls[c].fut = ResolvedResponse([error |-> TimeoutError, result |-> Null])

\* ------------------------------------------------------------------ C10
\* C10: when the transport needs no connection, isConnected is always true
\* and the session never invokes transport.connect or transport.disconnect:
\* connect() and disconnect() do nothing, call() and batch() never connect.
C10_Connectionless ==
  ~cfg.needsConnection =>
    /\ IsConnected
    /\ ~tConnected
    /\ uop = "idle"
    /\ \A c \in DOMAIN calls : calls[c].pc = "made"
    /\ \A b \in DOMAIN batches : batches[b].pc \in {"empty", "flush", "made"}

\* On a connectionless transport the application has invoked connect() or
\* disconnect() twice and made a call.
C10_Witness ==
  /\ ~cfg.needsConnection
  /\ nops - (Len(calls) + Len(preps) + Len(batches)) >= 2
  /\ \E c \in DOMAIN calls : calls[c].pc = "made"

\* ------------------------------------------------------------------ C11
\* C11: connect() invoked while isConnected is true and disconnect() invoked
\* while isConnected is false invoke no transport operation and change
\* nothing; connect() on a session that is not connected invokes
\* transport.connect and disconnect() on a connected one invokes
\* transport.disconnect, which leaves it not connected, so that connect();
\* disconnect(); connect(), each awaited and each succeeding on the transport,
\* ends with isConnected true.
C11_Idempotent ==
  [][ /\ (Connect /\ IsConnected) =>
           UNCHANGED <<cfg, tConnected, remote, msgs, calls, preps, batches, got, uop>>
      /\ (Disconnect /\ ~IsConnected) =>
           UNCHANGED <<cfg, tConnected, remote, msgs, calls, preps, batches, got, uop>>
      /\ (Connect /\ ~IsConnected) => uop' = "connecting"
      /\ (Disconnect /\ IsConnected /\ cfg.needsConnection) =>
           (uop' = "disconnecting" /\ ~IsConnected')
      /\ (ConnectDone /\ tConnected') => (IsConnected' /\ uop' = "idle") ]_vars

\* Three connection operations and nothing else were invoked on a transport
\* that needs a connection, all have completed, and the session is connected
\* (connect(); disconnect(); connect() ends here).
C11_Witness ==
  /\ cfg.needsConnection
  /\ nops = 3
  /\ Len(calls) = 0 /\ Len(preps) = 0 /\ Len(batches) = 0
  /\ uop = "idle"
  /\ IsConnected

\* ------------------------------------------------------------------ C12
\* C12: a batch() of an empty array resolves to an empty array and a batch()
\* of an empty object to an empty object, in every session state; the step
\* neither connects nor sends, registers nothing with the engine and
\* transmits nothing, also when the session is disconnected and autoConnect
\* is false.
C12_EmptyBatch ==
  [][ (/\ Batch
       /\ Len(batches') = Len(batches) + 1
       /\ batches'[Len(batches')].items = <<>>)
      => (/\ batches'[Len(batches')].fut =
               BResolved(IF batches'[Len(batches')].arr THEN "array" ELSE "object", <<>>)
          /\ \A b \in DOMAIN batches : batches'[b] = batches[b]
          /\ UNCHANGED <<cfg, tConnected, remote, msgs, calls, preps, got, uop>>) ]_vars

\* An empty object batch(), the only operation invoked so far, has resolved
\* to {} on a session that is disconnected and does not autoconnect.
C12_Witness ==
  /\ cfg.needsConnection /\ ~cfg.autoConnect /\ ~IsConnected
  /\ nops = 1
  /\ \E b \in DOMAIN batches :
       /\ batches[b].items = <<>>
       /\ ~batches[b].arr
       /\ batches[b].fut = BResolved("object", <<>>)

\* ------------------------------------------------------------------ C13
\* The messages that carry the request of PreparedCall h.
MessagesOf(h) == {m \in DOMAIN msgs : preps[h].id \in Range(msgs[m].ids)}

\* C13 as stated: with batchRequests true, a non-empty batch() whose flush has
\* run has caused exactly one transport.send of its own, and every call of
\* its input is in that message and in no other.
C13_AsStated ==
  \A b \in DOMAIN batches :
    (cfg.batchRequests /\ batches[b].pc = "made") =>
      \E m \in DOMAIN msgs :
        /\ msgs[m].from = [k |-> "batch", i |-> b]
        /\ \A n \in DOMAIN msgs : msgs[n].from = msgs[m].from => n = m
        /\ \A h \in Range(batches[b].items) : MessagesOf(h) = {m}

\* C13: with batchRequests true, the flush of a non-empty batch() hands
\* transport.send at most one message: every request registered with the
\* engine and not yet sent at that moment, in registration order, and nothing
\* when a call() or another batch() has flushed them all before. The
\* PreparedCalls a batch() registers get their ids in input order, and once
\* the flush has run each PreparedCall of the batch is in exactly one
\* message. With batchRequests false the batch itself sends nothing and each
\* of its calls is in exactly one message, which carries that call alone.
C13_OneFlush ==
  /\ [][ /\ \A b \in DOMAIN batches :
              (batches[b].pc = "flush" /\ batches'[b].pc = "made") =>
                /\ remote'.outbox = <<>>
                /\ IF remote.outbox = <<>>
                   THEN msgs' = msgs
                   ELSE msgs' = Append(msgs, [ids |-> remote.outbox, st |-> "sent",
                                              from |-> [k |-> "batch", i |-> b]])
         /\ (Batch /\ Len(batches') = Len(batches) + 1) =>
              LET its == batches'[Len(batches')].items IN
              \A i, j \in DOMAIN its :
                (/\ i < j
                 /\ ~preps[its[i]].started /\ ~preps[its[j]].started
                 /\ preps'[its[j]].started
                 /\ its[i] # its[j])
                => preps'[its[i]].id < preps'[its[j]].id ]_vars
  /\ [](\A m \in DOMAIN msgs :
          /\ \A i, j \in DOMAIN msgs[m].ids : i < j => msgs[m].ids[i] < msgs[m].ids[j]
          /\ ~cfg.batchRequests => (Len(msgs[m].ids) = 1 /\ msgs[m].from.k # "batch"))
  /\ [](\A b \in DOMAIN batches :
          batches[b].pc = "made" =>
            \A h \in Range(batches[b].items) :
              /\ preps[h].started
              /\ \E m \in DOMAIN msgs : MessagesOf(h) = {m})

\* With batchRequests true, a batch() of two PreparedCalls has flushed both in
\* one message of its own, in input order.
C13_Witness ==
  /\ cfg.batchRequests
  /\ \E b \in DOMAIN batches :
       /\ batches[b].pc = "made"
       /\ Len(batches[b].items) = 2
       /\ \E m \in DOMAIN msgs :
            /\ msgs[m].from = [k |-> "batch", i |-> b]
            /\ msgs[m].ids = <<preps[batches[b].items[1]].id, preps[batches[b].items[2]].id>>

\* ------------------------------------------------------------------ C14
\* C14: whatever prepare, batch and call operations are invoked, also when one
\* PreparedCall is given to batch() twice in one input, to two successive
\* batch() invocations or to two overlapping ones, each PreparedCall is
\* registered with the engine at most once, and its request is in at most one
\* transmitted message, once, and never both queued and transmitted.
C14_AtMostOnce ==
  /\ \A h \in DOMAIN preps :
       /\ Cardinality({i \in DOMAIN remote.reg : remote.reg[i] = [k |-> "prep", i |-> h]}) <= 1
       /\ preps[h].started => remote.reg[preps[h].id] = [k |-> "prep", i |-> h]
       /\ Cardinality(MessagesOf(h)) <= 1
       /\ MessagesOf(h) # {} => preps[h].id \notin Range(remote.outbox)
  /\ \A m \in DOMAIN msgs :
       \A i, j \in DOMAIN msgs[m].ids : msgs[m].ids[i] = msgs[m].ids[j] => i = j
  /\ \A i, j \in DOMAIN remote.outbox : remote.outbox[i] = remote.outbox[j] => i = j

\* One PreparedCall was given to batch() three times, twice in one input and
\* once more to an overlapping batch(); both flushes have run and its request
\* is in one message.
C14_Witness ==
  \E h \in DOMAIN preps, b1, b2 \in DOMAIN batches :
    /\ b1 # b2
    /\ batches[b1].items = <<h, h>>
    /\ h \in Range(batches[b2].items)
    /\ batches[b1].pc = "made" /\ batches[b2].pc = "made"
    /\ Cardinality(MessagesOf(h)) = 1

\* ------------------------------------------------------------------ C15
\* C15 as stated: every PreparedCall is registered with the engine from the
\* moment prepare() returned it.
C15_AsStated ==
  \A h \in DOMAIN preps :
    /\ preps[h].started
    /\ preps[h].id \in DOMAIN remote.reg
    /\ remote.reg[preps[h].id] = [k |-> "prep", i |-> h]

\* C15: prepare() is lazy. The step that returns the PreparedCall registers
\* nothing with the engine, transmits nothing and does not look at or change
\* the connection, whatever batchRequests is. The call is registered in the
\* step in which a batch() that contains it makes its calls (at once when
\* connected, else when its autoconnect has completed); with batchRequests
\* false it is transmitted in that same step as a message of its own, with
\* batchRequests true that step transmits nothing.
C15_Lazy ==
  [][ /\ Len(preps') = Len(preps) + 1 =>
           /\ UNCHANGED <<cfg, tConnected, remote, msgs, calls, batches, got, uop>>
           /\ preps'[Len(preps')] = [started |-> FALSE, id |-> 0, fut |-> Pending]
           /\ \A h \in DOMAIN preps : preps'[h] = preps[h]
      /\ \A h \in DOMAIN preps :
           (~preps[h].started /\ preps'[h].started) =>
             /\ \E b \in DOMAIN batches' :
                  /\ h \in Range(batches'[b].items)
                  /\ batches'[b].pc \in {"flush", "made"}
                  /\ b \in DOMAIN batches => batches[b].pc = "connecting"
             /\ IsConnected'
             /\ remote'.reg[preps'[h].id] = [k |-> "prep", i |-> h]
             /\ preps'[h].id \notin DOMAIN remote.reg
             /\ IF cfg.batchRequests
                THEN msgs' = msgs /\ preps'[h].id \in Range(remote'.outbox)
                ELSE \E m \in DOMAIN msgs' \ DOMAIN msgs :
                       msgs'[m] = [ids |-> <<preps'[h].id>>, st |-> "sent",
                                   from |-> [k |-> "prep", i |-> h]] ]_vars

\* With batchRequests false, of two PreparedCalls the one given to batch() is
\* registered and sent and the other one is still neither.
C15_Witness ==
  /\ ~cfg.batchRequests
  /\ Len(preps) = 2
  /\ preps[1].started /\ MessagesOf(1) # {}
  /\ ~preps[2].started /\ preps[2].id = 0
  /\ Len(remote.reg) = 1

\* ------------------------------------------------------------------ C16
\* The place in the history of the last notification(n, ...) before place k
\* (0: there is none).
LastRegistration(n, k) ==
  LET R == {r \in 1..(k - 1) : log[r].to = "registry" /\ log[r].ev = n}
  IN IF R = {} THEN 0 ELSE CHOOSE r \in R : \A q \in R : q <= r

\* C16: a notification handler is only ever invoked for an inbound
\* notification n when the last notification(n, ...) before it registered a
\* function: after notification(n, h) and then notification(n, null), h is
\* not invoked for a later inbound n (unless it is registered again). A
\* notification(n, null) for a name without a handler changes nothing.
C16_Unregistered ==
  /\ [](\A k \in DOMAIN log :
          log[k].to = "handler" =>
            /\ LastRegistration(log[k].ev, k) # 0
            /\ log[LastRegistration(log[k].ev, k)].h \in Handlers)
  /\ [][ (/\ Notification
          /\ log'[Len(log')].h = Null
          /\ exposed[log'[Len(log')].ev] = None)
         => UNCHANGED <<cfg, tConnected, remote, msgs, calls, preps, batches, got, uop,
                        exposed, tl, sl, nev, dpc>> ]_vars

\* notification(n, h), then notification(n, null), then an inbound n that
\* the session handed to the engine and that invoked no handler.
C16_Witness ==
  \E i, j, k \in DOMAIN log :
    /\ i < j /\ j < k /\ k < Len(log)
    /\ log[i].to = "registry" /\ log[i].h \in Handlers
    /\ log[j].to = "registry" /\ log[j].h = Null /\ log[j].ev = log[i].ev
    /\ log[k].to = "engine" /\ log[k].args[1] = log[i].ev
    /\ log[k + 1].to = "transport"

\* ------------------------------------------------------------------ C17
\* C17: a name has at most one handler, the one registered last. Each inbound
\* notification n(p) the session hands to the engine invokes the handler of
\* the last notification(n, h) exactly once, with the params p and nothing
\* else, and invokes no other handler: not an earlier handler of n and not
\* the handler of another name.
C17_LastHandler ==
  \A k \in DOMAIN log :
    /\ log[k].to = "engine" =>
         LET n == log[k].args[1]
             p == log[k].args[2]
             r == LastRegistration(n, k)
         IN IF r # 0 /\ log[r].h \in Handlers
            THEN /\ log[k + 1] = Delivery("handler", n, log[r].h, <<p>>)
                 /\ log[k + 2].to # "handler"
            ELSE log[k + 1].to # "handler"
    /\ log[k].to = "handler" => (k > 1 /\ log[k - 1].to = "engine")

\* notification(n, h1), then notification(n, h2) with another handler, then
\* an inbound n that invoked h2.
C17_Witness ==
  \E i, j, k \in DOMAIN log :
    /\ i < j /\ j < k /\ k < Len(log)
    /\ log[i].to = "registry" /\ log[i].h \in Handlers
    /\ log[j].to = "registry" /\ log[j].h \in Handlers /\ log[j].ev = log[i].ev
    /\ log[j].h # log[i].h
    /\ log[k].to = "engine" /\ log[k].args[1] = log[i].ev
    /\ log[k + 1].to = "handler" /\ log[k + 1].h = log[j].h

\* ------------------------------------------------------------------ C18
\* C18: destroy() takes off the transport exactly the four listeners the
\* session installed (data, connected, disconnected, error) and removes
\* every listener of the session itself; the listeners the application has
\* on the shared transport stay and keep receiving the events. From the
\* destroy() invocation on, an event of the transport is not handed to the
\* engine, invokes no notification handler and is not re-emitted by the
\* session, and the session never listens again.
C18_ListenersRemoved ==
  /\ [][ Destroy =>
           /\ SessionListeners \subseteq tl
           /\ tl' \cap SessionListeners = {}
           /\ {l \in tl' : l.who = "app"} = {l \in tl : l.who = "app"}
           /\ sl' = {} ]_vars
  /\ [](dpc # "none" =>
          /\ tl = AppListeners
          /\ sl = {}
          /\ \A k, j \in DOMAIN log :
               (log[k].to = "destroy" /\ k < j) => log[j].to = "transport")

\* A notification was handed to the engine and invoked its handler before
\* destroy(); after destroy() has resolved the same notification reached
\* the application's listener on the transport only.
C18_Witness ==
  /\ dpc = "done"
  /\ \E i, k \in DOMAIN log :
       /\ i < k /\ k + 1 = Len(log)
       /\ log[i].to = "handler"
       /\ log[k].to = "destroy"
       /\ log[k + 1] = Delivery("transport", "data", None, log[i - 1].args)

\* ------------------------------------------------------------------ C19
\* C19: once destroy() has resolved on a transport that needs a connection,
\* the transport is not connected, and the session does not connect it
\* later, also when a call() or batch() had its autoconnect in flight at
\* the destroy() invocation.
C19_DisconnectedAfterDestroy ==
  (cfg.needsConnection /\ dpc = "done") => ~tConnected

\* ------------------------------------------------------------------ C20
\* The futures of call() and batch() that are still pending.
PendingFutures ==
  {[k |-> "call", i |-> c] : c \in {d \in DOMAIN calls : calls[d].fut.st = "pending"}}
  \cup {[k |-> "batch", i |-> b] : b \in {d \in DOMAIN batches : batches[d].fut.st = "pending"}}

\* C20: once destroy() has been invoked, every call() and batch() future
\* that was pending then, also one still waiting for its autoconnect,
\* eventually settles.
C20_AllSettle == (dpc # "none") ~> (PendingFutures = {})

\* ------------------------------------------------------------------ C21
\* C21: every operation invoked after destroy() has resolved fails with an
\* error: its promise is rejected or it throws; none resolves or returns a
\* value.
C21_FailsAfterDestroy ==
  \A i \in DOMAIN after : after[i].out.how \in {"rejected", "thrown"}

\* ------------------------------------------------------------------ C22
\* C22 as stated: of every inbound message that carries both keys, the
\* message handed to the engine keeps error and has no result, whatever
\* the two values are.
C22_AsStated ==
  \A i \in DOMAIN inbound.items :
    (inbound.items[i].hasError /\ inbound.items[i].hasResult) =>
      /\ handed.items[i].hasError /\ handed.items[i].error = inbound.items[i].error
      /\ ~handed.items[i].hasResult

\* C22: what is handed to the engine has the shape of the inbound data, a
\* single message or an array of the same length and order. Of a message
\* that carries both keys, error is kept and result removed when the error
\* is truthy; when the error is null (or otherwise falsy), result is kept
\* and error removed. A message that carries one of the keys, or
\* neither, is handed over unchanged.
C22_TruthyErrorWins ==
  /\ handed.arr = inbound.arr
  /\ DOMAIN handed.items = DOMAIN inbound.items
  /\ \A i \in DOMAIN inbound.items :
       LET m == inbound.items[i]
           h == handed.items[i]
       IN IF m.hasError /\ m.hasResult
          THEN IF Truthy(m.error)
               THEN h = [hasError |-> TRUE, error |-> m.error,
                         hasResult |-> FALSE, result |-> None]
               ELSE h = [hasError |-> FALSE, error |-> None,
                         hasResult |-> TRUE, result |-> m.result]
          ELSE h = m

\* An array of two messages was received: one with an error object and a
\* result, handed over without the result, and one with error null and a
\* result, handed over without the error.
C22_Witness ==
  /\ inbound.arr /\ Len(inbound.items) = 2
  /\ inbound.items[1].hasError /\ inbound.items[1].hasResult
  /\ Truthy(inbound.items[1].error) /\ ~handed.items[1].hasResult
  /\ inbound.items[2].hasResult /\ inbound.items[2].error = Null
  /\ handed.items[2].hasResult /\ ~handed.items[2].hasError

\* ------------------------------------------------------------------ C23
\* C23: a message sent by call() contains exactly the request of that call:
\* it never carries the request of a PreparedCall (or of anything else)
\* that was registered and waiting for a flush.
C23_OwnMessage ==
  \A m \in DOMAIN msgs :
    msgs[m].from.k = "call" => msgs[m].ids = <<calls[msgs[m].from.i].id>>

\* ------------------------------------------------------------------ C24
\* The connects the session has invoked on the transport that have not
\* completed yet: one per call() or batch() that is autoconnecting, and the
\* one of the application's own connect().
InFlightConnects ==
  Cardinality({c \in DOMAIN calls : calls[c].pc = "connecting"})
  + Cardinality({b \in DOMAIN batches : batches[b].pc = "connecting"})
  + (IF uop = "connecting" THEN 1 ELSE 0)

\* C24: autoconnect is not serialized. Every call() and every non-empty
\* batch() invoked on a disconnected session with autoConnect invokes
\* transport.connect itself, whether or not a connect is already in flight:
\* the number of connects in flight grows by one.
C24_EachConnects ==
  [][ /\ ~IsConnected /\ ~RejectsUnconnected
      /\ \/ Len(calls') = Len(calls) + 1
         \/ Len(batches') = Len(batches) + 1 /\ batches'[Len(batches')].items # <<>>
      => InFlightConnects' = InFlightConnects + 1 ]_vars

\* Two overlapping operations have each invoked transport.connect and
\* neither connect has completed.
C24_Witness ==
  /\ ~IsConnected
  /\ \E b \in DOMAIN batches : batches[b].pc = "connecting"
  /\ Cardinality({c \in DOMAIN calls : calls[c].pc = "connecting"})
     + Cardinality({b \in DOMAIN batches : batches[b].pc = "connecting"}) >= 2

\* ------------------------------------------------------------------ C25
\* C25: when the transport.connect started by the autoconnect of a call() or
\* of a batch() fails (the connect completes and the transport is still
\* disconnected), that operation is rejected with the transport's failure,
\* and the step registers nothing with the engine, sends nothing and starts
\* no PreparedCall; the rejected operation never registers or sends later.
C25_ConnectFailure ==
  /\ [][ /\ \A c \in DOMAIN calls :
              calls[c].pc = "connecting" /\ calls'[c].pc # "connecting" /\ ~tConnected'
              => /\ calls'[c].fut = Rejected(ErrConnect)
                 /\ calls'[c].id = 0
                 /\ remote' = remote /\ msgs' = msgs /\ preps' = preps /\ got' = got
         /\ \A b \in DOMAIN batches :
              batches[b].pc = "connecting" /\ batches'[b].pc # "connecting" /\ ~tConnected'
              => /\ batches'[b].fut = BRejected(ErrConnect)
                 /\ remote' = remote /\ msgs' = msgs /\ preps' = preps /\ got' = got
     ]_vars
  /\ [](\A c \in DOMAIN calls :
          calls[c].fut = Rejected(ErrConnect)
          => /\ calls[c].id = 0
             /\ \A m \in DOMAIN msgs : msgs[m].from # [k |-> "call", i |-> c]
             /\ \A id \in DOMAIN remote.reg : remote.reg[id] # [k |-> "call", i |-> c])
  /\ [](\A b \in DOMAIN batches :
          batches[b].fut = BRejected(ErrConnect)
          => /\ batches[b].pc = "failed"
             /\ \A m \in DOMAIN msgs : msgs[m].from # [k |-> "batch", i |-> b])

\* The connect of a call() and the connect of a batch() holding a
\* PreparedCall have both failed: both are rejected with the failure, the
\* PreparedCall has not started and nothing was sent.
C25_Witness ==
  /\ \E c \in DOMAIN calls : calls[c].fut = Rejected(ErrConnect)
  /\ \E b \in DOMAIN batches :
       /\ batches[b].fut = BRejected(ErrConnect)
       /\ \E i \in DOMAIN batches[b].items : ~preps[batches[b].items[i]].started
  /\ msgs = <<>>

\* ------------------------------------------------------------------ C26
\* C26: for every accepted timeout option, an unanswered call is not settled
\* with TimeoutError before that many milliseconds have passed since its
\* transmission.
C26_NotBefore == clock.st = "timeout" => clock.ms >= tmo

====
